---- MODULE Spec2Model ----
(***************************************************************************)
(* Model of src/matchmaking.py: the NGO/corporate match score              *)
(* (calculate_match_score), the cost matrix (build_cost_matrix) and the    *)
(* two endpoints /match/optimal (optimal_matching) and /match/scores       *)
(* (get_match_scores).                                                     *)
(*                                                                         *)
(* Numbers are exact rationals [num, den] in lowest terms.  Strings that   *)
(* the code inspects (sector, impact_areas) are sequences of characters;   *)
(* strings it only compares (city, state, country) are opaque values.      *)
(* A JSON object is a function from its keys; a missing key is a key       *)
(* outside its DOMAIN.                                                     *)
(***************************************************************************)
EXTENDS Integers, Sequences, FiniteSets, TLC

VARIABLES
    pc,        \* "call"/"returned" for a call of the score, "received"/"responded" for a request
    ngo,       \* the NGO record passed to calculate_match_score
    corp,      \* the corporate record passed to calculate_match_score
    result,    \* what that call gave
    request,   \* the request received: its route and its JSON body
    response,  \* the response sent: its status and its JSON body
    scored,    \* the (i, j) for which the handler called calculate_match_score(ngos[i], corporates[j])
    solved     \* whether the handler called linear_sum_assignment

vars == <<pc, ngo, corp, result, request, response, scored, solved>>

\* ------------------------------------------------------------- bounds
\* longest sector / impact_areas field, in characters
MaxLen == 3
\* largest needs_budget / csr_budget, counted in halves
MaxAmount == 4
\* longest "ngos" list of a request
MaxNgos == 3
\* longest "corporates" list of a request
MaxCorps == 2

\* ------------------------------------------------------------- rationals
RECURSIVE GCD(_, _)
GCD(a, b) == IF b = 0 THEN a ELSE GCD(b, a % b)

Abs(x) == IF x < 0 THEN -x ELSE x

\* n/d in lowest terms, d > 0
Rat(n, d) ==
    LET g == GCD(Abs(n), d)
    IN  IF n = 0 THEN [num |-> 0, den |-> 1]
        ELSE [num |-> n \div g, den |-> d \div g]

Zero == Rat(0, 1)
One == Rat(1, 1)
Half == Rat(1, 2)

RatAdd(x, y) == Rat(x.num * y.den + y.num * x.den, x.den * y.den)
RatMul(x, y) == Rat(x.num * y.num, x.den * y.den)
RatNeg(x) == [num |-> -x.num, den |-> x.den]
\* x / y for y > 0
RatDiv(x, y) == Rat(x.num * y.den, x.den * y.num)
RatLeq(x, y) == x.num * y.den <= y.num * x.den
RatLess(x, y) == x.num * y.den < y.num * x.den
\* Python's max(a, b) returns a unless b > a; min(a, b) returns a unless b < a
RatMax(x, y) == IF RatLess(x, y) THEN y ELSE x
RatMin(x, y) == IF RatLess(y, x) THEN y ELSE x

\* ------------------------------------------------------------- strings
Alphabet == {"a", "A", ",", " "}

\* str.lower()
lower(s) == [i \in DOMAIN s |-> IF s[i] = "A" THEN "a" ELSE s[i]]

Separator == <<",", " ">>

\* the positions at which Separator occurs in s
SepAt(s) == {i \in 1..(Len(s) - 1) : s[i] = Separator[1] /\ s[i + 1] = Separator[2]}

Min(S) == CHOOSE x \in S : \A y \in S : x <= y

\* str.split(", "): the pieces between the non-overlapping occurrences of
\* the separator, scanning from the left; a string without one is one piece
RECURSIVE split(_)
split(s) ==
    IF SepAt(s) = {} THEN <<s>>
    ELSE LET k == Min(SepAt(s))
         IN  <<SubSeq(s, 1, k - 1)>> \o split(SubSeq(s, k + 2, Len(s)))

Range(f) == {f[i] : i \in DOMAIN f}

\* dict.get(key, default)
Get(d, key, default) == IF key \in DOMAIN d THEN d[key] ELSE default

\* ------------------------------------------------------------- scoring
\* set(ngo.get("sector", "").lower().split(", "))
ngo_sectors(n) == Range(split(lower(Get(n, "sector", <<>>))))

\* set(corp.get("impact_areas", "").lower().split(", "))
corp_impact_areas(c) == Range(split(lower(Get(c, "impact_areas", <<>>))))

\* the Jaccard denominator, max(len(union), 1)
JaccardDenominator(u) == IF 1 > Cardinality(u) THEN 1 ELSE Cardinality(u)

sector_match(n, c) ==
    Rat(Cardinality(ngo_sectors(n) \cap corp_impact_areas(c)),
        JaccardDenominator(ngo_sectors(n) \cup corp_impact_areas(c)))

\* corp["csr_budget"] and ngo["needs_budget"] are subscripts: a missing key
\* raises KeyError
RaisesKeyError(n, c) == "csr_budget" \notin DOMAIN c \/ "needs_budget" \notin DOMAIN n

\* budget_score without the clamp to 1.0
budget_score_unclamped(n, c) ==
    RatDiv(c["csr_budget"], RatMax(n["needs_budget"], One))

budget_score(n, c) ==
    RatMin(RatDiv(c["csr_budget"], RatMax(n["needs_budget"], One)), One)

ngo_location(n) == <<Get(n, "city", ""), Get(n, "state", ""), Get(n, "country", "")>>
corp_location(c) == <<Get(c, "city", ""), Get(c, "state", ""), Get(c, "country", "")>>

\* geo_score with the country compared as well
geo_score_country(n, c) ==
    IF ngo_location(n)[1] = corp_location(c)[1] /\ ngo_location(n)[3] = corp_location(c)[3]
    THEN One
    ELSE IF ngo_location(n)[2] = corp_location(c)[2] THEN Half
    ELSE Zero

geo_score(n, c) ==
    IF ngo_location(n)[1] = corp_location(c)[1] THEN One
    ELSE IF ngo_location(n)[2] = corp_location(c)[2] THEN Half
    ELSE Zero

\* the weights of the final score
SectorWeight == Rat(5, 10)
BudgetWeight == Rat(3, 10)
GeoWeight == Rat(2, 10)

\* calculate_match_score with the sector weight given to the budget too
calculate_match_score_weights(n, c) ==
    RatAdd(RatAdd(RatMul(SectorWeight, sector_match(n, c)),
                  RatMul(SectorWeight, budget_score(n, c))),
           RatMul(GeoWeight, geo_score(n, c)))

calculate_match_score(n, c) ==
    RatAdd(RatAdd(RatMul(SectorWeight, sector_match(n, c)),
                  RatMul(BudgetWeight, budget_score(n, c))),
           RatMul(GeoWeight, geo_score(n, c)))

\* ------------------------------------------------------------- inputs
\* An optional field is <<>> (the key is missing) or <<v>> (the key holds v);
\* Dict keeps the keys that are present.
Dict(p) == [k \in {x \in DOMAIN p : p[x] # <<>>} |-> p[k][1]]

Strings(n) == UNION {[1..k -> Alphabet] : k \in 0..n}
Amounts == {Rat(k, 2) : k \in 0..MaxAmount}

SectorOpts == {<<>>} \cup {<<s>> : s \in Strings(MaxLen)}
AmountOpts == {<<>>} \cup {<<a>> : a \in Amounts}
CityOpts == {<<>>, <<"">>, <<"Pune">>, <<"pune">>}
StateOpts == {<<>>, <<"">>, <<"MH">>, <<"KA">>}
CountryOpts == {<<>>, <<"IN">>, <<"US">>}
LocationOpts == CityOpts \X StateOpts \X CountryOpts

\* The pairs scored: one of the three aspects ranges over all its values
\* while the other two are both at their high-scoring or both at their
\* low-scoring pair.
Levels == {"high", "low"}
CoreSectors(lv) ==
    IF lv = "high" THEN << <<<<"a">>>>, <<<<"a">>>> >> ELSE << <<<<"a">>>>, <<<<"A", "a">>>> >>
CoreAmounts(lv) ==
    IF lv = "high" THEN << <<Rat(2, 2)>>, <<Rat(2, 2)>> >> ELSE << <<Rat(4, 2)>>, <<Rat(0, 2)>> >>
CoreLocations(lv) ==
    IF lv = "high"
    THEN << << <<"Pune">>, <<"MH">>, <<"IN">> >>, << <<"Pune">>, <<"MH">>, <<"IN">> >> >>
    ELSE << << <<"Pune">>, <<"MH">>, <<"IN">> >>, << <<"pune">>, <<"KA">>, <<"US">> >> >>

Aspects == {"sector", "budget", "geo"}
SectorPairs(a, lv) == IF a = "sector" THEN SectorOpts \X SectorOpts ELSE {CoreSectors(lv)}
AmountPairs(a, lv) == IF a = "budget" THEN AmountOpts \X AmountOpts ELSE {CoreAmounts(lv)}
LocationPairs(a, lv) == IF a = "geo" THEN LocationOpts \X LocationOpts ELSE {CoreLocations(lv)}

NgoRecord(id, sector, needs, loc) ==
    Dict([id |-> <<id>>, name |-> <<"NGO">>, sector |-> sector, needs_budget |-> needs,
          city |-> loc[1], state |-> loc[2], country |-> loc[3]])

CorpRecord(id, areas, csr, loc) ==
    Dict([id |-> <<id>>, name |-> <<"Corp">>, impact_areas |-> areas, csr_budget |-> csr,
          city |-> loc[1], state |-> loc[2], country |-> loc[3]])

NoRecord == [id |-> 0]
NoResult == [kind |-> "none"]
NoRequest == [route |-> "none"]
NoResponse == [status |-> 0]

\* ------------------------------------------------------------- the score, called
InitScore ==
    /\ pc = "call"
    /\ \E a \in Aspects, lv \in Levels :
         \E s \in SectorPairs(a, lv), b \in AmountPairs(a, lv), l \in LocationPairs(a, lv) :
            /\ ngo = NgoRecord(1, s[1], b[1], l[1])
            /\ corp = CorpRecord(10, s[2], b[2], l[2])
    /\ result = NoResult
    /\ request = NoRequest
    /\ response = NoResponse
    /\ scored = {}
    /\ solved = FALSE

\* one call of calculate_match_score(ngo, corp): its three sub-scores and
\* the value returned, or the KeyError it raises
CalculateMatchScore ==
    /\ pc = "call"
    /\ pc' = "returned"
    /\ result' =
          IF RaisesKeyError(ngo, corp) THEN [kind |-> "KeyError"]
          ELSE [kind |-> "ok",
                sector_match |-> sector_match(ngo, corp),
                budget_score |-> budget_score(ngo, corp),
                geo_score |-> geo_score(ngo, corp),
                score |-> calculate_match_score(ngo, corp)]
    /\ UNCHANGED <<ngo, corp, request, response, scored, solved>>

NextScore == CalculateMatchScore

SpecScore == InitScore /\ [][NextScore]_vars

\* ------------------------------------------------------------- cost matrix
\* build_cost_matrix without the negation
build_cost_matrix_positive(ngos, corporates) ==
    [i \in 1..Len(ngos) |->
        [j \in 1..Len(corporates) |-> calculate_match_score(ngos[i], corporates[j])]]

\* cost_matrix[i][j] = -calculate_match_score(ngos[i], corporates[j])
build_cost_matrix(ngos, corporates) ==
    [i \in 1..Len(ngos) |->
        [j \in 1..Len(corporates) |-> RatNeg(calculate_match_score(ngos[i], corporates[j]))]]

\* (k, l) is visited before (i, j) by "for ngo in ngos: for corp in corporates"
Before(k, l, i, j) == k < i \/ (k = i /\ l < j)

\* the pairs scored by that loop: every pair up to the first one that raises
ScoredPairs(ngos, corporates) ==
    {p \in (1..Len(ngos)) \X (1..Len(corporates)) :
        \A q \in (1..Len(ngos)) \X (1..Len(corporates)) :
            Before(q[1], q[2], p[1], p[2]) => ~RaisesKeyError(ngos[q[1]], corporates[q[2]])}

LoopRaises(ngos, corporates) ==
    \E p \in (1..Len(ngos)) \X (1..Len(corporates)) :
        RaisesKeyError(ngos[p[1]], corporates[p[2]])

\* ------------------------------------------------------------- assignment
Injective(f) == \A x, y \in DOMAIN f : f[x] = f[y] => x = y

\* the assignments of an m x n matrix: min(m, n) cells, no two in one row
\* or one column
Assignments(m, n) ==
    IF m <= n
    THEN {{<<i, f[i]>> : i \in 1..m} : f \in {g \in [1..m -> 1..n] : Injective(g)}}
    ELSE {{<<f[j], j>> : j \in 1..n} : f \in {g \in [1..n -> 1..m] : Injective(g)}}

RECURSIVE Total(_, _)
\* the sum of matrix[i][j] over the cells (i, j) of a
Total(matrix, a) ==
    IF a = {} THEN Zero
    ELSE LET c == CHOOSE x \in a : TRUE
         IN  RatAdd(matrix[c[1]][c[2]], Total(matrix, a \ {c}))

RECURSIVE ByRow(_)
\* the cells of an assignment in increasing row order
ByRow(a) ==
    IF a = {} THEN <<>>
    ELSE LET c == CHOOSE x \in a : \A y \in a : x[1] <= y[1]
         IN  <<c>> \o ByRow(a \ {c})

\* the row indices and the column indices of the cells of an assignment
RowInd(cells) == [k \in DOMAIN cells |-> cells[k][1]]
ColInd(cells) == [k \in DOMAIN cells |-> cells[k][2]]

\* scipy.optimize.linear_sum_assignment(cost_matrix): every (row_ind, col_ind)
\* it may return, row_ind sorted, the assignment being one of minimum total cost
linear_sum_assignment(cost_matrix, m, n) ==
    LET priced == {<<a, Total(cost_matrix, a)>> : a \in Assignments(m, n)}
        best == {p \in priced : \A q \in priced : RatLeq(p[2], q[2])}
    IN  {<<RowInd(ByRow(p[1])), ColInd(ByRow(p[1]))>> : p \in best}

\* ------------------------------------------------------------- endpoints
\* the validation with "and" for "or"
InvalidInput_and(ngos, corporates) == ngos = <<>> /\ corporates = <<>>

\* "if not ngos or not corporates"
InvalidInput(ngos, corporates) == ngos = <<>> \/ corporates = <<>>

BadRequest ==
    [status |-> 400,
     body |-> [error |-> "Invalid input. Provide 'ngos' and 'corporates' list"]]

\* an exception that leaves the handler is answered with status 500
ServerError == [status |-> 500, body |-> [exception |-> "KeyError"]]

\* matched_pairs with a nested loop over the two index arrays for the zip
matched_pairs_nested(ngos, corporates, cost_matrix, ngo_indices, corp_indices) ==
    [k \in 1..(Len(ngo_indices) * Len(corp_indices)) |->
        LET i == ngo_indices[((k - 1) \div Len(corp_indices)) + 1]
            j == corp_indices[((k - 1) % Len(corp_indices)) + 1]
        IN  [ngo_id |-> ngos[i]["id"],
             ngo_name |-> ngos[i]["name"],
             corporate_id |-> corporates[j]["id"],
             corporate_name |-> corporates[j]["name"],
             match_score |-> RatNeg(cost_matrix[i][j])]]

\* the entry appended for each (i, j) of zip(ngo_indices, corp_indices)
matched_pairs(ngos, corporates, cost_matrix, ngo_indices, corp_indices) ==
    [k \in 1..(IF Len(ngo_indices) <= Len(corp_indices)
               THEN Len(ngo_indices) ELSE Len(corp_indices)) |->
        [ngo_id |-> ngos[ngo_indices[k]]["id"],
         ngo_name |-> ngos[ngo_indices[k]]["name"],
         corporate_id |-> corporates[corp_indices[k]]["id"],
         corporate_name |-> corporates[corp_indices[k]]["name"],
         match_score |-> RatNeg(cost_matrix[ngo_indices[k]][corp_indices[k]])]]

\* match_scores with zip(ngos, corporates) for the nested loop
match_scores_zip(ngos, corporates) ==
    [k \in 1..(IF Len(ngos) <= Len(corporates) THEN Len(ngos) ELSE Len(corporates)) |->
        [ngo_id |-> ngos[k]["id"],
         ngo_name |-> ngos[k]["name"],
         corporate_id |-> corporates[k]["id"],
         corporate_name |-> corporates[k]["name"],
         match_score |-> calculate_match_score(ngos[k], corporates[k])]]

\* the list "for ngo in ngos for corp in corporates": entry (i, j) at
\* position (i - 1) * len(corporates) + j
match_scores(ngos, corporates) ==
    [k \in 1..(Len(ngos) * Len(corporates)) |->
        LET i == ((k - 1) \div Len(corporates)) + 1
            j == ((k - 1) % Len(corporates)) + 1
        IN  [ngo_id |-> ngos[i]["id"],
             ngo_name |-> ngos[i]["name"],
             corporate_id |-> corporates[j]["id"],
             corporate_name |-> corporates[j]["name"],
             match_score |-> calculate_match_score(ngos[i], corporates[j])]]

\* POST /match/optimal
OptimalMatching ==
    /\ pc = "received"
    /\ request.route = "/match/optimal"
    /\ pc' = "responded"
    /\ LET ngos == Get(request.data, "ngos", <<>>)
           corporates == Get(request.data, "corporates", <<>>)
       IN  IF InvalidInput(ngos, corporates)
           THEN /\ response' = BadRequest
                /\ scored' = {}
                /\ solved' = FALSE
           ELSE IF LoopRaises(ngos, corporates)
           THEN /\ response' = ServerError
                /\ scored' = ScoredPairs(ngos, corporates)
                /\ solved' = FALSE
           ELSE \E cost_matrix \in {build_cost_matrix(ngos, corporates)} :
                    \E sol \in linear_sum_assignment(cost_matrix, Len(ngos), Len(corporates)) :
                       /\ response' =
                             [status |-> 200,
                              body |-> [matched_pairs |->
                                  matched_pairs(ngos, corporates, cost_matrix, sol[1], sol[2])]]
                       /\ scored' = ScoredPairs(ngos, corporates)
                       /\ solved' = TRUE
    /\ UNCHANGED <<ngo, corp, result, request>>

\* POST /match/scores
GetMatchScores ==
    /\ pc = "received"
    /\ request.route = "/match/scores"
    /\ pc' = "responded"
    /\ LET ngos == Get(request.data, "ngos", <<>>)
           corporates == Get(request.data, "corporates", <<>>)
       IN  IF InvalidInput(ngos, corporates)
           THEN /\ response' = BadRequest
                /\ scored' = {}
           ELSE IF LoopRaises(ngos, corporates)
           THEN /\ response' = ServerError
                /\ scored' = ScoredPairs(ngos, corporates)
           ELSE /\ response' =
                      [status |-> 200,
                       body |-> [match_scores |-> match_scores(ngos, corporates)]]
                /\ scored' = ScoredPairs(ngos, corporates)
    /\ UNCHANGED <<ngo, corp, result, request, solved>>

\* ------------------------------------------------------------- requests
\* The entities a request lists: <<sector / impact_areas, budget, location>>,
\* each field optional.
NgoProfiles ==
    {<< <<<<"a">>>>, <<Rat(2, 2)>>, << <<"Pune">>, <<"MH">>, <<"IN">> >> >>,
     << <<<<"a", ",", " ", "A", "a">>>>, <<Rat(4, 2)>>, << <<"pune">>, <<"MH">>, <<"IN">> >> >>,
     << <<>>, <<Rat(0, 2)>>, << <<>>, <<"KA">>, <<>> >> >>,
     << <<<<"a">>>>, <<>>, << <<"Pune">>, <<"MH">>, <<"IN">> >> >>}

CorpProfiles ==
    {<< <<<<"a">>>>, <<Rat(2, 2)>>, << <<"Pune">>, <<"MH">>, <<"IN">> >> >>,
     << <<<<"a", "a">>>>, <<Rat(1, 2)>>, << <<"">>, <<"KA">>, <<"US">> >> >>,
     << <<<<"A", ",", " ", "a", "a">>>>, <<Rat(4, 2)>>, << <<"pune">>, <<"MH">>, <<>> >> >>,
     << <<<<"a">>>>, <<>>, << <<"Pune">>, <<"KA">>, <<"IN">> >> >>}

\* the i-th NGO of a list has id i, the j-th corporate id 10 + j
NgoList(ps) == [i \in DOMAIN ps |-> NgoRecord(i, ps[i][1], ps[i][2], ps[i][3])]
CorpList(ps) == [j \in DOMAIN ps |-> CorpRecord(10 + j, ps[j][1], ps[j][2], ps[j][3])]

Lists(profiles, n) == UNION {[1..k -> profiles] : k \in 0..n}

\* the "ngos" / "corporates" key of the body: missing, or a list
NgosOpts == {<<>>} \cup {<<NgoList(ps)>> : ps \in Lists(NgoProfiles, MaxNgos)}
CorporatesOpts == {<<>>} \cup {<<CorpList(ps)>> : ps \in Lists(CorpProfiles, MaxCorps)}

Routes == {"/match/optimal", "/match/scores"}

Init ==
    /\ pc = "received"
    /\ \E r \in Routes, n \in NgosOpts, c \in CorporatesOpts :
          request = [route |-> r, data |-> Dict([ngos |-> n, corporates |-> c])]
    /\ response = NoResponse
    /\ scored = {}
    /\ solved = FALSE
    /\ ngo = NoRecord
    /\ corp = NoRecord
    /\ result = NoResult

Next == OptimalMatching \/ GetMatchScores

Spec == Init /\ [][Next]_vars

\* ------------------------------------------------------------- properties
\* the lists a handled request carried
ReqNgos == Get(request.data, "ngos", <<>>)
ReqCorporates == Get(request.data, "corporates", <<>>)

\* every listed entity carries its budget field as a number
BudgetsGiven ==
    /\ \A i \in DOMAIN ReqNgos : "needs_budget" \in DOMAIN ReqNgos[i]
    /\ \A j \in DOMAIN ReqCorporates : "csr_budget" \in DOMAIN ReqCorporates[j]

Handled(route) ==
    /\ pc = "responded"
    /\ request.route = route
    /\ ReqNgos # <<>>
    /\ ReqCorporates # <<>>
    /\ BudgetsGiven

Smaller(m, n) == IF m <= n THEN m ELSE n

RECURSIVE SumScores(_)
\* the sum of the match_score values of a list of entries
SumScores(entries) ==
    IF entries = <<>> THEN Zero
    ELSE RatAdd(entries[1].match_score, SumScores(Tail(entries)))

\* the scores of the request's pairs, as calculate_match_score gives them
ScoreOf == [i \in DOMAIN ReqNgos |->
               [j \in DOMAIN ReqCorporates |-> calculate_match_score(ReqNgos[i], ReqCorporates[j])]]

\* C1: for non-empty lists of m NGOs and n corporates (budgets given), the
\* optimal matching answers with exactly min(m, n) pairs, no NGO and no
\* corporate in two of them, so m - min(m, n) NGOs stay unmatched.
C1_MatchingIsOneToOne ==
    Handled("/match/optimal") =>
        /\ response.status = 200
        /\ LET mp == response.body.matched_pairs
           IN  /\ Len(mp) = Smaller(Len(ReqNgos), Len(ReqCorporates))
               /\ \A k, l \in DOMAIN mp :
                     k # l => /\ mp[k].ngo_id # mp[l].ngo_id
                              /\ mp[k].corporate_id # mp[l].corporate_id
               /\ \A k \in DOMAIN mp :
                     /\ \E i \in DOMAIN ReqNgos : ReqNgos[i]["id"] = mp[k].ngo_id
                     /\ \E j \in DOMAIN ReqCorporates : ReqCorporates[j]["id"] = mp[k].corporate_id
               /\ Cardinality({i \in DOMAIN ReqNgos :
                                  \A k \in DOMAIN mp : mp[k].ngo_id # ReqNgos[i]["id"]})
                     = Len(ReqNgos) - Smaller(Len(ReqNgos), Len(ReqCorporates))

\* 3 NGOs and 2 corporates: 2 pairs answered, one NGO unmatched
C1_Witness ==
    /\ Handled("/match/optimal")
    /\ Len(ReqNgos) = 3
    /\ Len(ReqCorporates) = 2
    /\ response.status = 200
    /\ Len(response.body.matched_pairs) = 2

\* C2: the match_score values of the pairs answered by the optimal matching
\* sum to the largest total any one-to-one pairing of min(m, n) pairs has,
\* and each is calculate_match_score of the NGO and corporate it names.
C2_MatchingIsOptimal ==
    Handled("/match/optimal") =>
        /\ response.status = 200
        /\ \A score \in {ScoreOf} :
              LET mp == response.body.matched_pairs
                  sum == SumScores(mp)
                  totals == {Total(score, a) :
                                a \in Assignments(Len(ReqNgos), Len(ReqCorporates))}
              IN  /\ \A k \in DOMAIN mp :
                        \E i \in DOMAIN ReqNgos, j \in DOMAIN ReqCorporates :
                           /\ ReqNgos[i]["id"] = mp[k].ngo_id
                           /\ ReqCorporates[j]["id"] = mp[k].corporate_id
                           /\ mp[k].match_score = score[i][j]
                  /\ \A t \in totals : RatLeq(t, sum)
                  /\ sum \in totals

\* a matching answered where some other one-to-one pairing scores strictly less
C2_Witness ==
    /\ Handled("/match/optimal")
    /\ Len(ReqNgos) >= 2
    /\ Len(ReqCorporates) >= 2
    /\ response.status = 200
    /\ \E score \in {ScoreOf} :
          \E a \in Assignments(Len(ReqNgos), Len(ReqCorporates)) :
             RatLess(Total(score, a), SumScores(response.body.matched_pairs))

\* C3: with both budgets given (and non-negative), the score returned lies
\* in [0, 1].
C3_ScoreInUnitInterval ==
    (pc = "returned" /\ "needs_budget" \in DOMAIN ngo /\ "csr_budget" \in DOMAIN corp) =>
        /\ result.kind = "ok"
        /\ RatLeq(Zero, result.score)
        /\ RatLeq(result.score, One)

\* a score of exactly 1
C3_Witness ==
    /\ pc = "returned"
    /\ result.kind = "ok"
    /\ result.score = One

\* C4: a request whose ngos or corporates list is empty or missing is
\* answered with the input error by both endpoints, with no score computed
\* and no assignment solved; a request with both lists non-empty is not.
C4_EmptyListRejected ==
    pc = "responded" =>
        IF \/ "ngos" \notin DOMAIN request.data
           \/ "corporates" \notin DOMAIN request.data
           \/ Len(request.data.ngos) = 0
           \/ Len(request.data.corporates) = 0
        THEN /\ response.status = 400
             /\ DOMAIN response.body = {"error"}
             /\ scored = {}
             /\ solved = FALSE
        ELSE /\ response.status # 400
             /\ "error" \notin DOMAIN response.body

\* the ngos key missing, two corporates listed, the error answered
C4_Witness ==
    /\ pc = "responded"
    /\ "ngos" \notin DOMAIN request.data
    /\ "corporates" \in DOMAIN request.data
    /\ Len(request.data.corporates) = 2
    /\ response.status = 400

\* the record with a missing budget field replaced by zero
WithDefault(r, key) == [k \in DOMAIN r \cup {key} |-> IF k \in DOMAIN r THEN r[k] ELSE Zero]

\* C5: calculate_match_score never raises: with a field missing it returns
\* the score computed with the missing field's empty / zero default.
C5_ScoreIsTotal ==
    pc = "returned" =>
        /\ result.kind = "ok"
        /\ result.score = calculate_match_score(WithDefault(ngo, "needs_budget"),
                                                WithDefault(corp, "csr_budget"))

\* C6: for non-empty lists of m NGOs and n corporates (budgets given), the
\* scores endpoint answers m * n entries, exactly one for each (NGO,
\* corporate) pair, carrying the pair's ids and its calculate_match_score.
C6_ScoresTableComplete ==
    Handled("/match/scores") =>
        /\ response.status = 200
        /\ \A score \in {ScoreOf} :
              LET ms == response.body.match_scores
              IN  /\ Len(ms) = Len(ReqNgos) * Len(ReqCorporates)
                  /\ \A i \in DOMAIN ReqNgos, j \in DOMAIN ReqCorporates :
                        LET at == {k \in DOMAIN ms :
                                      /\ ms[k].ngo_id = ReqNgos[i]["id"]
                                      /\ ms[k].corporate_id = ReqCorporates[j]["id"]}
                        IN  /\ Cardinality(at) = 1
                            /\ \A k \in at : ms[k].match_score = score[i][j]
        /\ solved = FALSE

\* 3 NGOs and 2 corporates: 6 entries, each id in more than one entry
C6_Witness ==
    /\ Handled("/match/scores")
    /\ Len(ReqNgos) = 3
    /\ Len(ReqCorporates) = 2
    /\ response.status = 200
    /\ Len(response.body.match_scores) = 6

EmptyOrMissing(r, key) == key \notin DOMAIN r \/ r[key] = <<>>

\* C7: an empty or missing category field gives an empty tag set, and with
\* both fields empty the category overlap is 0 and adds nothing to the score.
C7_EmptyCategoriesScoreZero ==
    pc = "returned" =>
        /\ EmptyOrMissing(ngo, "sector") => ngo_sectors(ngo) = {}
        /\ EmptyOrMissing(corp, "impact_areas") => corp_impact_areas(corp) = {}
        /\ (/\ EmptyOrMissing(ngo, "sector")
            /\ EmptyOrMissing(corp, "impact_areas")
            /\ result.kind = "ok") =>
              /\ result.sector_match = Zero
              /\ result.score = RatAdd(RatMul(BudgetWeight, result.budget_score),
                                       RatMul(GeoWeight, result.geo_score))

\* C8 as stated: for every non-negative capacity and budget the budget
\* sub-score is 1 whenever budget >= capacity and 1/2 whenever
\* budget = capacity / 2.
C8_AsStated ==
    (pc = "returned" /\ result.kind = "ok") =>
        /\ RatLeq(ngo["needs_budget"], corp["csr_budget"]) => result.budget_score = One
        /\ corp["csr_budget"] = RatMul(Half, ngo["needs_budget"]) => result.budget_score = Half

\* C8: with the capacity floored at 1, the budget sub-score is 1 whenever
\* budget >= max(capacity, 1) and 1/2 whenever budget = max(capacity, 1) / 2.
C8_BudgetScoreFloored ==
    (pc = "returned" /\ result.kind = "ok") =>
        LET capacity == IF RatLess(ngo["needs_budget"], One) THEN One ELSE ngo["needs_budget"]
        IN  /\ RatLeq(capacity, corp["csr_budget"]) => result.budget_score = One
            /\ corp["csr_budget"] = RatMul(Half, capacity) => result.budget_score = Half

\* a capacity of 2 met by a budget of 1: the sub-score is 1/2
C8_Witness ==
    /\ pc = "returned"
    /\ result.kind = "ok"
    /\ ngo["needs_budget"] = Rat(2, 1)
    /\ corp["csr_budget"] = Rat(1, 1)
    /\ result.budget_score = Half

\* a comma-delimited field cut at its commas
RECURSIVE SplitAtCommas(_)
SplitAtCommas(s) ==
    IF \A i \in DOMAIN s : s[i] # "," THEN <<s>>
    ELSE LET k == Min({i \in DOMAIN s : s[i] = ","})
         IN  <<SubSeq(s, 1, k - 1)>> \o SplitAtCommas(SubSeq(s, k + 1, Len(s)))

RECURSIVE Trimmed(_)
\* a tag without its surrounding whitespace
Trimmed(s) ==
    IF s = <<>> THEN s
    ELSE IF s[1] = " " THEN Trimmed(Tail(s))
    ELSE IF s[Len(s)] = " " THEN Trimmed(SubSeq(s, 1, Len(s) - 1))
    ELSE s

\* the tags of a field: cut at the commas, trimmed, in lower case
TagsOf(field) == {lower(Trimmed(t)) : t \in Range(SplitAtCommas(field))}

\* C9: the category overlap is the Jaccard similarity of the two sets of
\* trimmed, case-folded tags: 1 for two fields listing the same tags, 0 for
\* two fields with no tag in common (fields whose tags are all non-empty).
C9_JaccardOfTrimmedTags ==
    (/\ pc = "returned"
     /\ result.kind = "ok"
     /\ "sector" \in DOMAIN ngo
     /\ "impact_areas" \in DOMAIN corp
     /\ <<>> \notin TagsOf(ngo["sector"])
     /\ <<>> \notin TagsOf(corp["impact_areas"])) =>
        LET A == TagsOf(ngo["sector"])
            B == TagsOf(corp["impact_areas"])
        IN  /\ A = B => result.sector_match = One
            /\ A \cap B = {} => result.sector_match = Zero
            /\ result.sector_match = Rat(Cardinality(A \cap B), Cardinality(A \cup B))

CityOf(r) == IF "city" \in DOMAIN r THEN r["city"] ELSE ""
StateOf(r) == IF "state" \in DOMAIN r THEN r["state"] ELSE ""

\* the record with its country key set to k, or removed
WithCountry(r, k) ==
    IF k = <<>> THEN [x \in DOMAIN r \ {"country"} |-> r[x]]
    ELSE [x \in DOMAIN r \cup {"country"} |-> IF x = "country" THEN k[1] ELSE r[x]]

\* C10: the geographic sub-score is 1 when the cities are equal (two empty
\* or missing cities are equal), otherwise 1/2 when the states are equal,
\* otherwise 0; no country value changes the score.
C10_GeoScore ==
    (pc = "returned" /\ result.kind = "ok") =>
        /\ result.geo_score =
              IF CityOf(ngo) = CityOf(corp) THEN One
              ELSE IF StateOf(ngo) = StateOf(corp) THEN Half
              ELSE Zero
        /\ \A k, l \in CountryOpts :
              calculate_match_score(WithCountry(ngo, k), WithCountry(corp, l)) = result.score

\* a missing city and an empty city, in different countries, score 1
C10_Witness ==
    /\ pc = "returned"
    /\ result.kind = "ok"
    /\ "city" \notin DOMAIN ngo
    /\ "city" \in DOMAIN corp
    /\ corp["city"] = ""
    /\ "country" \in DOMAIN ngo
    /\ "country" \in DOMAIN corp
    /\ ngo["country"] # corp["country"]
    /\ result.geo_score = One

====
